---- MODULE Spec2Model ----
(***************************************************************************)
(* ParaProbe (src/paraprobe.py): a parameter discovery scan.               *)
(*                                                                         *)
(* The main thread loads the wordlist, samples the baseline, starts the    *)
(* worker threads, fills the queue, waits on queue.join(), enqueues one    *)
(* None per worker and joins the threads.  Each worker loops over          *)
(* queue.get() / test_parameter() / sleep / queue.task_done().             *)
(*                                                                         *)
(* A queue item k >= 1 stands for the string params[k], the k-th element   *)
(* of the loaded list; the item 0 stands for None.                         *)
(***************************************************************************)
EXTENDS Integers, Sequences, FiniteSets, TLC

\* ------------------------------------------------------------------ bounds

\* The worker threads and the wordlist's names of a scan together.
MaxLoad == 4
\* The control requests of a baseline.
MaxSamples == 3

\* ------------------------------------------------------- program constants

AbsThreshold == 50
RelDenominator == 20
PlaceholderLen == 4
ErrPatternLen == 7

RedirectCodes == {301, 302, 303, 307, 308}

\* Candidate names of the wordlist.  "a(" is a name with a regular
\* expression metacharacter: every pattern built from it fails to compile.
Names == {"id", "a("}

BadPattern(name) == name = "a("

WordLists == UNION {[1..n -> Names] : n \in 0..MaxLoad}

Workers == 1..MaxLoad

None == 0

\* An unused slot of a set's table.
Unused == 0 - 1

\* ----------------------------------------------------------------- inputs

\* A response of the target as test_parameter reads it: the status code,
\* len(response.text), whether the placeholder occurs in the text, and
\* whether one of the seven error patterns of the candidate matches the text.
\* A text shorter than the placeholder cannot contain it, and a text no
\* longer than the shortest pattern literal cannot match a pattern.
Realizable(r) ==
    /\ r.reflected => r.length >= PlaceholderLen
    /\ r.errmsg => r.length > ErrPatternLen

ResponsesOver(Cs, Ls) ==
    {r \in [status : Cs, length : Ls, reflected : BOOLEAN, errmsg : BOOLEAN] :
        Realizable(r)}

\* The responses of the scan specification: two codes, the error patterns
\* matching or not.
ScanResponses == {r \in ResponsesOver({200, 500}, {100}) : ~r.reflected}

\* The responses of the detector specification: the lengths around both
\* thresholds of the length heuristic.
DetectLengths == {0, 40, 50, 51, 100, 105, 1000, 1050, 1060, 10000, 10040, 10400}

DetectResponses == ResponsesOver({200, 500}, DetectLengths)

\* The responses of the baseline specification: three codes and three
\* lengths, so that three samples can all differ, and a redirect code.
BaselineResponses ==
    {r \in ResponsesOver({200, 302, 404, 500}, {100, 105, 108}) : ~r.errmsg}

TransportErrors == {"Timeout", "RequestException"}

\* ------------------------------------------------------------------ state

VARIABLES
    threads, wordlist, stable_check, delay,
    pc, params, i, nstarted,
    lengths, codes, reflections, warned,
    baseline_length, baseline_code, baseline_reflection,
    queue, unfinished,
    lock, total_requests, found_params,
    wpc, cur, response, tmp, reason,
    target, output, exported, interrupt,
    calls, failed, found_from, control

config == <<threads, wordlist, stable_check, delay, output>>
mainv == <<pc, params, i, nstarted>>
samples == <<lengths, codes, reflections, warned>>
baseline == <<baseline_length, baseline_code, baseline_reflection>>
queuev == <<queue, unfinished>>
shared == <<lock, total_requests, found_params>>
locals == <<wpc, cur, response, tmp, reason>>
\* The process around the scanner: target[k], where the target is one that
\* answers a name always alike, is its answer to params[k]; exported lists
\* the files written by export_json; interrupt is empty until the operator's
\* interrupt arrives and then holds the calls made up to that moment.
process == <<target, exported, interrupt>>
\* History, read by no action: calls[k] counts the test_parameter calls for
\* params[k], failed holds the k whose request raised, found_from[j] is the k
\* that found_params[j] was appended for, control lists how each control
\* request of the baseline ended.
ghost == <<calls, failed, found_from, control>>

vars == <<config, mainv, samples, baseline, queuev, shared, locals, process, ghost>>

NoResponse == [status |-> 0, length |-> 0, reflected |-> FALSE, errmsg |-> FALSE]

\* ----------------------------------------------------------- pure helpers

Abs(x) == IF x < 0 THEN 0 - x ELSE x

Count(s, v) == Cardinality({k \in 1..Len(s) : s[k] = v})

Elems(s) == {s[k] : k \in 1..Len(s)}

\* set(values) as CPython builds it from a list of small non-negative ints:
\* a table of 8 slots, hash(v) = v, first slot v mod 8, and on a collision
\* perturb >>= 5; slot = (5*slot + 1 + perturb) mod 8 (no linear probes in a
\* table of 8).  The table is not resized below five entries.
RECURSIVE SetProbe(_, _, _, _)
SetProbe(table, v, slot, perturb) ==
    IF table[slot] = Unused THEN [table EXCEPT ![slot] = v]
    ELSE IF table[slot] = v THEN table
    ELSE LET p == perturb \div 32
         IN SetProbe(table, v, (5 * slot + 1 + p) % 8, p)

RECURSIVE SetTable(_)
SetTable(values) ==
    IF values = <<>> THEN [slot \in 0..7 |-> Unused]
    ELSE LET v == values[Len(values)]
             t == SetTable(SubSeq(values, 1, Len(values) - 1))
         IN SetProbe(t, v, v % 8, v)

\* Iterating the set walks the table in slot order.
RECURSIVE SlotOrder(_, _)
SlotOrder(table, slot) ==
    IF slot >= 8 THEN <<>>
    ELSE (IF table[slot] = Unused THEN <<>> ELSE <<table[slot]>>)
            \o SlotOrder(table, slot + 1)

SetOrder(values) == SlotOrder(SetTable(values), 0)

\* max(iterable, key=f) keeps the first item whose key is not exceeded.
RECURSIVE MaxByCount(_, _, _)
MaxByCount(order, values, best) ==
    IF order = <<>> THEN best
    ELSE MaxByCount(Tail(order), values,
            IF Count(values, Head(order)) > Count(values, best)
            THEN Head(order) ELSE best)

\* The most frequent value, the one seen first among equals.
ModeFirstSeen(values) ==
    LET best(k) == \A j \in 1..Len(values) :
                        Count(values, values[j]) <= Count(values, values[k])
        first == CHOOSE k \in 1..Len(values) :
                    best(k) /\ \A j \in 1..(k - 1) : ~best(j)
    IN values[first]

\* The first sample, whatever its frequency.
FirstSample(values) == values[1]

\* max(set(values), key=values.count) for a non-empty list.
ModeOf(values) ==
    LET order == SetOrder(values)
    IN MaxByCount(Tail(order), values, Head(order))

\* length_diff / baseline_length > 0.05 in binary floating point.  The
\* quotient is evaluated only when length_diff <= 50 (the "or" short-cuts),
\* where the correctly rounded quotient exceeds the double 0.05 exactly when
\* 20 * length_diff > baseline_length.
RelativeExceeds(length_diff, blen) == RelDenominator * length_diff > blen

\* LengthDiffers with both thresholds required.
LengthDiffersBoth(length_diff, blen) ==
    length_diff > AbsThreshold /\ (blen > 0 /\ RelativeExceeds(length_diff, blen))

LengthDiffers(length_diff, blen) ==
    length_diff > AbsThreshold \/ (blen > 0 /\ RelativeExceeds(length_diff, blen))

\* Detect with the length heuristic tried before the status code.
DetectLengthFirst(r, name, bcode, blen, brefl) ==
    LET length_diff == Abs(r.length - blen)
        code_diff == r.status # bcode
        reflection_diff == r.reflected # brefl
    IN IF LengthDiffers(length_diff, blen) THEN "Length"
       ELSE IF code_diff THEN "Status"
       ELSE IF reflection_diff THEN "Reflection detected"
       ELSE IF BadPattern(name) THEN "re.error"
       ELSE IF r.errmsg THEN "Error message detected"
       ELSE ""

\* Detect with the reflection check firing only when the placeholder
\* appears and did not appear in the baseline.
DetectReflectionGain(r, name, bcode, blen, brefl) ==
    LET length_diff == Abs(r.length - blen)
        code_diff == r.status # bcode
        reflection_diff == r.reflected /\ ~brefl
    IN IF code_diff THEN "Status"
       ELSE IF LengthDiffers(length_diff, blen) THEN "Length"
       ELSE IF reflection_diff THEN "Reflection detected"
       ELSE IF BadPattern(name) THEN "re.error"
       ELSE IF r.errmsg THEN "Error message detected"
       ELSE ""

\* The detection heuristics of test_parameter: the reason of the finding,
\* "" for no finding, "re.error" when check_error_messages raises.
Detect(r, name, bcode, blen, brefl) ==
    LET length_diff == Abs(r.length - blen)
        code_diff == r.status # bcode
        reflection_diff == r.reflected # brefl
    IN IF code_diff THEN "Status"
       ELSE IF LengthDiffers(length_diff, blen) THEN "Length"
       ELSE IF reflection_diff THEN "Reflection detected"
       ELSE IF BadPattern(name) THEN "re.error"
       ELSE IF r.errmsg THEN "Error message detected"
       ELSE ""

\* ------------------------------------------------------------------- Init

\* ParaProbe.__init__: the configuration, and the scanner's fields; no file
\* written and no interrupt yet.
InitScanner(Cs, Ss, Ds) ==
    /\ \E c \in Cs :
        /\ threads = c.threads
        /\ wordlist = c.wordlist
    /\ stable_check \in Ss
    /\ delay \in Ds
    /\ pc = "load"
    /\ params = <<>>
    /\ i = 0
    /\ nstarted = 0
    /\ lengths = <<>>
    /\ codes = <<>>
    /\ reflections = <<>>
    /\ warned = {}
    /\ baseline_length = 0
    /\ baseline_code = 0
    /\ baseline_reflection = FALSE
    /\ queue = <<>>
    /\ unfinished = 0
    /\ lock = None
    /\ total_requests = 0
    /\ found_params = <<>>
    /\ wpc = [w \in Workers |-> "unstarted"]
    /\ cur = [w \in Workers |-> None]
    /\ response = [w \in Workers |-> NoResponse]
    /\ tmp = [w \in Workers |-> 0]
    /\ reason = [w \in Workers |-> ""]
    /\ exported = <<>>
    /\ interrupt = <<>>
    /\ calls = [k \in 1..MaxLoad |-> 0]
    /\ failed = {}
    /\ found_from = <<>>
    /\ control = <<>>

\* A scan as scan() runs it: no export asked for, and a target that need
\* not answer a name always alike.
InitOver(Cs, Ss, Ds) ==
    /\ InitScanner(Cs, Ss, Ds)
    /\ target = <<>>
    /\ output = FALSE

\* The scans of the model: any thread count, below 1 too, and any wordlist,
\* with repeated names too, within the load bound.
Scans ==
    {c \in [threads : (0 - 1)..MaxLoad, wordlist : WordLists] :
        (IF c.threads > 0 THEN c.threads ELSE 0) + Len(c.wordlist) <= MaxLoad}

\* One worker and one name.
SmallScans == {[threads |-> 1, wordlist |-> <<n>>] : n \in Names}

\* Every scan within the load bound with at most one control request, and
\* the small scans with up to MaxSamples control requests.
Init ==
    \/ InitOver(Scans, {0, 1}, {0, 1})
    \/ InitOver(SmallScans, 0..MaxSamples, {0, 1})

\* ------------------------------------------------------- the main thread

\* load_wordlist: the stripped non-empty lines of the file, or exit(1) when
\* the file cannot be read.
LoadWordlist ==
    /\ pc = "load"
    /\ \E readable \in BOOLEAN :
        IF readable
        THEN /\ params' = wordlist
             /\ pc' = "baseline"
        ELSE /\ params' = params
             /\ pc' = "exit1"
    /\ UNCHANGED <<i, nstarted>>
    /\ UNCHANGED <<config, process, samples, baseline, queuev, shared, locals, ghost>>

\* BaselineRequest with the exception swallowed and the loop going on.
BaselineRequestContinue(R) ==
    /\ pc = "baseline"
    /\ i < stable_check
    /\ \/ \E r \in R :
            /\ lengths' = Append(lengths, r.length)
            /\ codes' = Append(codes, r.status)
            /\ reflections' = Append(reflections, r.reflected)
            /\ i' = i + 1
            /\ pc' = pc
            /\ control' = Append(control, "answered")
       \/ \E e \in TransportErrors :
            /\ pc' = pc
            /\ i' = i + 1
            /\ control' = Append(control, "raised")
            /\ UNCHANGED <<lengths, codes, reflections>>
    /\ UNCHANGED <<params, nstarted, warned>>
    /\ UNCHANGED <<calls, failed, found_from>>
    /\ UNCHANGED <<config, process, baseline, queuev, shared, locals>>

\* establish_baseline, one pass of "for i in range(self.stable_check)": the
\* control request answers and its sample is recorded, or it raises and the
\* process exits with status 1.
BaselineRequest(R) ==
    /\ pc = "baseline"
    /\ i < stable_check
    /\ \/ \E r \in R :
            /\ lengths' = Append(lengths, r.length)
            /\ codes' = Append(codes, r.status)
            /\ reflections' = Append(reflections, r.reflected)
            /\ i' = i + 1
            /\ pc' = pc
            /\ control' = Append(control, "answered")
       \/ \E e \in TransportErrors :
            /\ pc' = "exit1"
            /\ control' = Append(control, "raised")
            /\ UNCHANGED <<lengths, codes, reflections, i>>
    /\ UNCHANGED <<params, nstarted, warned>>
    /\ UNCHANGED <<calls, failed, found_from>>
    /\ UNCHANGED <<config, process, baseline, queuev, shared, locals>>

\* The warnings establish_baseline prints for the samples.
Warnings(ls, cs) ==
    (IF Cardinality(Elems(ls)) > 1 \/ Cardinality(Elems(cs)) > 1
     THEN {"unstable"} ELSE {})
    \cup (IF \A k \in 1..Len(cs) : cs[k] \in RedirectCodes
          THEN {"redirect"} ELSE {})

\* establish_baseline after the loop: the two warnings, then the signature.
\* With no sample, all(...) of the empty list is true and codes[0] raises
\* IndexError while the redirect warning is being formatted: nothing is
\* printed and nothing catches it.
BaselineCompute ==
    /\ pc = "baseline"
    /\ i >= stable_check
    /\ IF codes = <<>>
       THEN /\ pc' = "raised"
            /\ warned' = warned
            /\ UNCHANGED baseline
       ELSE /\ warned' = Warnings(lengths, codes)
            /\ baseline_length' = ModeOf(lengths)
            /\ baseline_code' = ModeOf(codes)
            /\ baseline_reflection' = (TRUE \in Elems(reflections))
            /\ pc' = "baseline_set"
    /\ UNCHANGED <<params, i, nstarted, lengths, codes, reflections>>
    /\ UNCHANGED <<config, process, queuev, shared, locals, ghost>>

\* establish_baseline prints the signature and returns to scan: its lists
\* are gone, and scan goes on to start the workers.
BaselineReturn ==
    /\ pc = "baseline_set"
    /\ pc' = "spawn"
    /\ i' = 0
    /\ lengths' = <<>>
    /\ codes' = <<>>
    /\ reflections' = <<>>
    /\ UNCHANGED <<params, nstarted, warned>>
    /\ UNCHANGED <<config, process, baseline, queuev, shared, locals, ghost>>

\* StartWorker with the threads started while the baseline is still sampled.
StartWorkerEarly ==
    /\ pc \in {"baseline", "spawn"}
    /\ IF nstarted < threads
       THEN /\ nstarted' = nstarted + 1
            /\ wpc' = [wpc EXCEPT ![nstarted + 1] = "get"]
            /\ pc' = pc
       ELSE /\ pc = "spawn"
            /\ pc' = "enqueue"
            /\ UNCHANGED <<nstarted, wpc>>
    /\ UNCHANGED <<params, i, cur, response, tmp, reason>>
    /\ UNCHANGED <<config, process, samples, baseline, queuev, shared, ghost>>

\* scan, "for _ in range(self.threads)": start one worker thread, or leave
\* the loop.
StartWorker ==
    /\ pc = "spawn"
    /\ IF nstarted < threads
       THEN /\ nstarted' = nstarted + 1
            /\ wpc' = [wpc EXCEPT ![nstarted + 1] = "get"]
            /\ pc' = pc
       ELSE /\ pc' = "enqueue"
            /\ UNCHANGED <<nstarted, wpc>>
    /\ UNCHANGED <<params, i, cur, response, tmp, reason>>
    /\ UNCHANGED <<config, process, samples, baseline, queuev, shared, ghost>>

\* PutParam with the loop ending one name early.
PutParamShort ==
    /\ pc = "enqueue"
    /\ IF i < Len(params) - 1
       THEN /\ queue' = Append(queue, i + 1)
            /\ unfinished' = unfinished + 1
            /\ i' = i + 1
            /\ pc' = pc
       ELSE /\ pc' = "join"
            /\ i' = 0
            /\ UNCHANGED queuev
    /\ UNCHANGED <<params, nstarted>>
    /\ UNCHANGED <<config, process, samples, baseline, shared, locals, ghost>>

\* PutParam with every name put twice.
PutParamTwice ==
    /\ pc = "enqueue"
    /\ IF i < Len(params)
       THEN /\ queue' = Append(Append(queue, i + 1), i + 1)
            /\ unfinished' = unfinished + 2
            /\ i' = i + 1
            /\ pc' = pc
       ELSE /\ pc' = "join"
            /\ i' = 0
            /\ UNCHANGED queuev
    /\ UNCHANGED <<params, nstarted>>
    /\ UNCHANGED <<config, process, samples, baseline, shared, locals, ghost>>

\* scan, "for param in params: self.queue.put(param)": put one name, or
\* leave the loop.  put() counts the item as an unfinished task.
PutParam ==
    /\ pc = "enqueue"
    /\ IF i < Len(params)
       THEN /\ queue' = Append(queue, i + 1)
            /\ unfinished' = unfinished + 1
            /\ i' = i + 1
            /\ pc' = pc
       ELSE /\ pc' = "join"
            /\ i' = 0
            /\ UNCHANGED queuev
    /\ UNCHANGED <<params, nstarted>>
    /\ UNCHANGED <<config, process, samples, baseline, shared, locals, ghost>>

\* QueueJoin that does not wait for the unfinished tasks.
QueueJoinNoWait ==
    /\ pc = "join"
    /\ pc' = "stop"
    /\ UNCHANGED <<params, i, nstarted>>
    /\ UNCHANGED <<config, process, samples, baseline, queuev, shared, locals, ghost>>

\* scan, self.queue.join(): blocks until every put item was marked done.
QueueJoin ==
    /\ pc = "join"
    /\ unfinished = 0
    /\ pc' = "stop"
    /\ UNCHANGED <<params, i, nstarted>>
    /\ UNCHANGED <<config, process, samples, baseline, queuev, shared, locals, ghost>>

\* PutSentinel with the loop ending one None early.
PutSentinelShort ==
    /\ pc = "stop"
    /\ IF i < threads - 1
       THEN /\ queue' = Append(queue, None)
            /\ unfinished' = unfinished + 1
            /\ i' = i + 1
            /\ pc' = pc
       ELSE /\ pc' = "join_threads"
            /\ i' = 0
            /\ UNCHANGED queuev
    /\ UNCHANGED <<params, nstarted>>
    /\ UNCHANGED <<config, process, samples, baseline, shared, locals, ghost>>

\* scan, "for _ in range(self.threads): self.queue.put(None)": put one
\* None, or leave the loop.
PutSentinel ==
    /\ pc = "stop"
    /\ IF i < threads
       THEN /\ queue' = Append(queue, None)
            /\ unfinished' = unfinished + 1
            /\ i' = i + 1
            /\ pc' = pc
       ELSE /\ pc' = "join_threads"
            /\ i' = 0
            /\ UNCHANGED queuev
    /\ UNCHANGED <<params, nstarted>>
    /\ UNCHANGED <<config, process, samples, baseline, shared, locals, ghost>>

\* scan, "for t in threads: t.join()": returns once every started thread
\* has ended.
JoinThreads ==
    /\ pc = "join_threads"
    /\ \A w \in 1..nstarted : wpc[w] = "exited"
    /\ pc' = "report"
    /\ UNCHANGED <<params, i, nstarted>>
    /\ UNCHANGED <<config, process, samples, baseline, queuev, shared, locals, ghost>>

\* scan, the report: elapsed is the difference of two time.time() readings,
\* 0 when both fall into one tick of the clock, and total_requests/elapsed
\* then raises ZeroDivisionError, which nothing catches.
Report ==
    /\ pc = "report"
    /\ \E elapsed \in {0, 1} :
        pc' = IF elapsed = 0 THEN "raised" ELSE "returned"
    /\ UNCHANGED <<params, i, nstarted>>
    /\ UNCHANGED <<config, process, samples, baseline, queuev, shared, locals, ghost>>

MainStep(R) ==
    \/ LoadWordlist
    \/ BaselineRequest(R)
    \/ BaselineCompute
    \/ BaselineReturn
    \/ StartWorker
    \/ PutParam
    \/ QueueJoin
    \/ PutSentinel
    \/ JoinThreads
    \/ Report

\* ------------------------------------------------------ the worker threads

\* Where a worker goes when test_parameter returns: "if self.delay > 0".
AfterTest == IF delay > 0 THEN "sleep" ELSE "task_done"

\* worker, param = self.queue.get(): blocks on an empty queue; ends the loop
\* on None, else calls test_parameter(param).
Get(w) ==
    /\ wpc[w] = "get"
    /\ queue # <<>>
    /\ queue' = Tail(queue)
    /\ IF Head(queue) = None
       THEN /\ wpc' = [wpc EXCEPT ![w] = "exited"]
            /\ UNCHANGED <<cur, calls>>
       ELSE /\ wpc' = [wpc EXCEPT ![w] = "request"]
            /\ cur' = [cur EXCEPT ![w] = Head(queue)]
            /\ calls' = [calls EXCEPT ![Head(queue)] = @ + 1]
    /\ UNCHANGED <<unfinished, response, tmp, reason, failed, found_from, control>>
    /\ UNCHANGED <<config, process, mainv, samples, baseline, shared>>

\* Request with the exception leaving test_parameter and ending the thread.
RequestUncaught(w, R) ==
    /\ wpc[w] = "request"
    /\ \/ \E r \in R :
            /\ response' = [response EXCEPT ![w] = r]
            /\ wpc' = [wpc EXCEPT ![w] = "count"]
            /\ failed' = failed
       \/ \E e \in TransportErrors :
            /\ wpc' = [wpc EXCEPT ![w] = "exited"]
            /\ failed' = failed \cup {cur[w]}
            /\ response' = response
    /\ UNCHANGED <<cur, tmp, reason, calls, found_from, control>>
    /\ UNCHANGED <<config, process, mainv, samples, baseline, queuev, shared>>

\* Request with an answered request going to the heuristics uncounted.
RequestUncounted(w, R) ==
    /\ wpc[w] = "request"
    /\ \/ \E r \in R :
            /\ response' = [response EXCEPT ![w] = r]
            /\ wpc' = [wpc EXCEPT ![w] = "classify"]
            /\ failed' = failed
       \/ \E e \in TransportErrors :
            /\ wpc' = [wpc EXCEPT ![w] = AfterTest]
            /\ failed' = failed \cup {cur[w]}
            /\ response' = response
    /\ UNCHANGED <<cur, tmp, reason, calls, found_from, control>>
    /\ UNCHANGED <<config, process, mainv, samples, baseline, queuev, shared>>

\* test_parameter, the request: the target answers, or the call raises
\* (Timeout or another exception) and test_parameter returns False.
Request(w, R) ==
    /\ wpc[w] = "request"
    /\ \/ \E r \in R :
            /\ response' = [response EXCEPT ![w] = r]
            /\ wpc' = [wpc EXCEPT ![w] = "count"]
            /\ failed' = failed
       \/ \E e \in TransportErrors :
            /\ wpc' = [wpc EXCEPT ![w] = AfterTest]
            /\ failed' = failed \cup {cur[w]}
            /\ response' = response
    /\ UNCHANGED <<cur, tmp, reason, calls, found_from, control>>
    /\ UNCHANGED <<config, process, mainv, samples, baseline, queuev, shared>>

\* CountLoad that reads the counter without waiting for the lock.
CountLoadNoLock(w) ==
    /\ wpc[w] = "count"
    /\ lock' = w
    /\ tmp' = [tmp EXCEPT ![w] = total_requests]
    /\ wpc' = [wpc EXCEPT ![w] = "store"]
    /\ UNCHANGED <<total_requests, found_params, cur, response, reason>>
    /\ UNCHANGED <<config, process, mainv, samples, baseline, queuev, ghost>>

\* test_parameter, "with self.lock: self.total_requests += 1", first half:
\* the lock is taken and the counter is read.
CountLoad(w) ==
    /\ wpc[w] = "count"
    /\ lock = None
    /\ lock' = w
    /\ tmp' = [tmp EXCEPT ![w] = total_requests]
    /\ wpc' = [wpc EXCEPT ![w] = "store"]
    /\ UNCHANGED <<total_requests, found_params, cur, response, reason>>
    /\ UNCHANGED <<config, process, mainv, samples, baseline, queuev, ghost>>

\* Second half: the sum is stored and the lock released.
CountStore(w) ==
    /\ wpc[w] = "store"
    /\ total_requests' = tmp[w] + 1
    /\ lock' = None
    /\ wpc' = [wpc EXCEPT ![w] = "classify"]
    /\ UNCHANGED <<found_params, cur, response, tmp, reason>>
    /\ UNCHANGED <<config, process, mainv, samples, baseline, queuev, ghost>>

\* The record test_parameter appends for a finding.
Finding(name, r, why) ==
    [param |-> name, status |-> r.status, length |-> r.length, reason |-> why]

\* Decide with the response read from a place the workers share, where the
\* first worker's response lies.
DecideShared(w) ==
    /\ wpc[w] = "classify"
    /\ LET why == Detect(response[1], params[cur[w]],
                         baseline_code, baseline_length, baseline_reflection)
       IN /\ reason' = [reason EXCEPT ![w] = why]
          /\ IF why \in {"", "re.error"}
             THEN /\ found_params' = found_params
                  /\ found_from' = found_from
             ELSE /\ lock = None
                  /\ found_params' = Append(found_params,
                                        Finding(params[cur[w]], response[1], why))
                  /\ found_from' = Append(found_from, cur[w])
    /\ wpc' = [wpc EXCEPT ![w] = AfterTest]
    /\ UNCHANGED <<lock, total_requests, cur, response, tmp, calls, failed, control>>
    /\ UNCHANGED <<config, process, mainv, samples, baseline, queuev>>

\* test_parameter, the detection heuristics against the baseline and, for a
\* finding, "with self.lock: ... self.found_params.append(result)"; then it
\* returns.  The heuristics touch nothing shared, so the step is taken when
\* the append is: a finding waits for the lock.  Without a finding nothing
\* is appended; re.error is caught by "except Exception" and nothing is
\* appended either.
Decide(w) ==
    /\ wpc[w] = "classify"
    /\ LET why == Detect(response[w], params[cur[w]],
                         baseline_code, baseline_length, baseline_reflection)
       IN /\ reason' = [reason EXCEPT ![w] = why]
          /\ IF why \in {"", "re.error"}
             THEN /\ found_params' = found_params
                  /\ found_from' = found_from
             ELSE /\ lock = None
                  /\ found_params' = Append(found_params,
                                        Finding(params[cur[w]], response[w], why))
                  /\ found_from' = Append(found_from, cur[w])
    /\ wpc' = [wpc EXCEPT ![w] = AfterTest]
    /\ UNCHANGED <<lock, total_requests, cur, response, tmp, calls, failed, control>>
    /\ UNCHANGED <<config, process, mainv, samples, baseline, queuev>>

\* worker, "if self.delay > 0: time.sleep(self.delay)".
Sleep(w) ==
    /\ wpc[w] = "sleep"
    /\ wpc' = [wpc EXCEPT ![w] = "task_done"]
    /\ UNCHANGED <<cur, response, tmp, reason>>
    /\ UNCHANGED <<config, process, mainv, samples, baseline, queuev, shared, ghost>>

\* worker, self.queue.task_done(), and back to the head of the loop; the
\* values of the finished call are gone.
TaskDone(w) ==
    /\ wpc[w] = "task_done"
    /\ unfinished' = unfinished - 1
    /\ wpc' = [wpc EXCEPT ![w] = "get"]
    /\ cur' = [cur EXCEPT ![w] = None]
    /\ response' = [response EXCEPT ![w] = NoResponse]
    /\ tmp' = [tmp EXCEPT ![w] = 0]
    /\ reason' = [reason EXCEPT ![w] = ""]
    /\ UNCHANGED queue
    /\ UNCHANGED <<config, process, mainv, samples, baseline, shared, ghost>>

WorkerStep(w, R) ==
    \/ Get(w)
    \/ Request(w, R)
    \/ CountLoad(w)
    \/ CountStore(w)
    \/ Decide(w)
    \/ Sleep(w)
    \/ TaskDone(w)

\* ------------------------------------------------- main, around the scan

\* The operator's interrupt arrives while scan() runs: KeyboardInterrupt is
\* raised in the main thread, wherever it stands, and travels to the handler
\* of main.  Nothing tells the workers.
Interrupt ==
    /\ pc \in {"load", "baseline", "baseline_set", "spawn", "enqueue", "join",
               "stop", "join_threads", "report"}
    /\ pc' = "interrupted"
    /\ interrupt' = <<calls>>
    /\ UNCHANGED <<params, i, nstarted, target, exported>>
    /\ UNCHANGED <<config, samples, baseline, queuev, shared, locals, ghost>>

\* main, "except KeyboardInterrupt": the notice is printed and sys.exit(0)
\* ends the process; the workers are daemon threads and end with it,
\* wherever they stand.
InterruptExit ==
    /\ pc = "interrupted"
    /\ pc' = "exit0"
    /\ UNCHANGED <<params, i, nstarted>>
    /\ UNCHANGED <<config, process, samples, baseline, queuev, shared, locals, ghost>>

\* Export with the file written for an empty list of findings too.
ExportAlways ==
    /\ pc = "returned"
    /\ pc' = "exit0"
    /\ exported' = IF output THEN Append(exported, found_params) ELSE exported
    /\ UNCHANGED <<params, i, nstarted, target, interrupt>>
    /\ UNCHANGED <<config, samples, baseline, queuev, shared, locals, ghost>>

\* main after scan() has returned, "if args.output and results:
\* scanner.export_json(args.output)", and export_json, "if
\* self.found_params:": json.dump writes the list, one record per entry;
\* then main returns and the process ends.
Export ==
    /\ pc = "returned"
    /\ pc' = "exit0"
    /\ exported' = IF output /\ found_params # <<>>
                   THEN Append(exported, found_params)
                   ELSE exported
    /\ UNCHANGED <<params, i, nstarted, target, interrupt>>
    /\ UNCHANGED <<config, samples, baseline, queuev, shared, locals, ghost>>

\* --------------------------------------------------------- specifications

NextOver(R) == MainStep(R) \/ \E w \in Workers : WorkerStep(w, R)

\* The scan: every configuration within the load bound, a target with few
\* different responses.
Next == NextOver(ScanResponses)

Spec == Init /\ [][Next]_vars

\* The scan under fair scheduling: the main thread and every started worker
\* thread keep running while they can (the threads are operating-system
\* threads, a request returns or times out after 10 seconds, a sleep ends).
\* Every scan within the load bound, one control request, a sleep after
\* every probe, a target with two responses.
InitFair == InitOver(Scans, {1}, {1})

FairResponses == {r \in ScanResponses : ~r.errmsg}

NextFair == NextOver(FairResponses)

FairSpec ==
    /\ InitFair
    /\ [][NextFair]_vars
    /\ WF_vars(MainStep(FairResponses))
    /\ \A w \in Workers : WF_vars(WorkerStep(w, FairResponses))

\* The detector: one worker, one name, one control request, a target whose
\* body lengths lie around both thresholds of the length heuristic.
InitDetect == InitOver(SmallScans, {1}, {0, 1})

NextDetect == NextOver(DetectResponses)

SpecDetect == InitDetect /\ [][NextDetect]_vars

\* The baseline estimator: establish_baseline as scan calls it, up to
\* MaxSamples control requests, a target whose samples can all differ.
InitBaseline ==
    InitOver({[threads |-> 1, wordlist |-> <<>>]}, 0..MaxSamples, {0})

NextBaseline ==
    \/ LoadWordlist
    \/ BaselineRequest(BaselineResponses)
    \/ BaselineCompute
    \/ BaselineReturn

SpecBaseline == InitBaseline /\ [][NextBaseline]_vars

\* The process: main around the scan, with or without an output file asked
\* for, and the operator's interrupt.  At least one worker, one control
\* request, no sleep, a load one below the bound.  Once the process has
\* ended no thread takes a step.
MainScans ==
    {c \in Scans : c.threads >= 1 /\ c.threads + Len(c.wordlist) < MaxLoad}

InitMain ==
    /\ InitScanner(MainScans, {1}, {0})
    /\ target = <<>>
    /\ output \in BOOLEAN

NextMain ==
    \/ pc # "exit0" /\ NextOver(ScanResponses)
    \/ Interrupt
    \/ InterruptExit
    \/ Export

SpecMain == InitMain /\ [][NextMain]_vars

\* The scan of a target that answers a name always alike: target[k] is its
\* answer to params[k], whichever worker asks and whenever.  At least one
\* worker, one control request, no sleep, three different answers.
OutcomeScans == {c \in Scans : c.threads >= 1}

OutcomeResponses == {r \in ScanResponses : r.status = 200 \/ ~r.errmsg}

InitOutcome ==
    /\ InitScanner(OutcomeScans, {1}, {0})
    /\ target \in [1..Len(wordlist) -> OutcomeResponses]
    /\ output = FALSE

\* The target's answer to the name the worker asks about.
AnswerTo(w) == IF cur[w] \in DOMAIN target THEN {target[cur[w]]} ELSE {}

NextOutcome ==
    \/ MainStep(OutcomeResponses)
    \/ \E w \in Workers : WorkerStep(w, AnswerTo(w))

SpecOutcome == InitOutcome /\ [][NextOutcome]_vars

\* ----------------------------------------------------------------- claims

Unique(s) == \A a, b \in 1..Len(s) : s[a] = s[b] => a = b

RECURSIVE CallsUpTo(_, _)
CallsUpTo(k, name) ==
    IF k = 0 THEN 0
    ELSE CallsUpTo(k - 1, name) + (IF params[k] = name THEN calls[k] ELSE 0)

\* The test_parameter calls made so far for a name.
CallsOf(name) == CallsUpTo(Len(params), name)

\* test_parameter has returned for the worker's current item.
Returned(w) == wpc[w] \in {"sleep", "task_done"}

\* The worker's current request was answered and the heuristics were run.
Decided(w) == Returned(w) /\ cur[w] \notin failed

\* found_params holds an entry appended for item k with this reason.
Recorded(k, why) ==
    \E j \in 1..Len(found_params) :
        /\ found_from[j] = k
        /\ found_params[j].param = params[k]
        /\ found_params[j].reason = why

\* C1: with unique names and at least one worker no name is ever handed to
\* test_parameter twice, and when scan() returns after a run in which no
\* request raised, every name was handed to it exactly once and
\* total_requests is the number of names.
C1_EachNameProbedOnce ==
    (threads >= 1 /\ Unique(wordlist)) =>
        /\ \A n \in Names : CallsOf(n) <= 1
        /\ (pc = "returned" /\ failed = {}) =>
            /\ \A n \in Elems(wordlist) : CallsOf(n) = 1
            /\ total_requests = Len(wordlist)

C1_Witness ==
    /\ pc = "returned"
    /\ threads = 2
    /\ Len(wordlist) = 2
    /\ Unique(wordlist)
    /\ failed = {}
    /\ total_requests = 2
    /\ \A n \in Names : CallsOf(n) = 1

\* C2: whenever the status code of the response differs from the baseline's,
\* the finding is the status finding, whatever the length, the reflection
\* and the body are.
C2_StatusWins ==
    \A w \in Workers :
        (Decided(w) /\ response[w].status # baseline_code) =>
            /\ reason[w] = "Status"
            /\ Recorded(cur[w], "Status")

C2_Witness ==
    \E w \in Workers :
        /\ Decided(w)
        /\ baseline_code = 200
        /\ response[w].status = 500
        /\ baseline_length = 100
        /\ response[w].length = 10400
        /\ response[w].reflected # baseline_reflection
        /\ Recorded(cur[w], "Status")

\* C3: with the status code equal to the baseline's, the finding is the
\* length finding exactly when d = |length - baseline length| has d > 50, or
\* the baseline length is positive and 20 * d exceeds it.
C3_LengthThresholds ==
    \A w \in Workers :
        (Decided(w) /\ response[w].status = baseline_code) =>
            LET d == Abs(response[w].length - baseline_length)
                differs == d > 50 \/ (baseline_length > 0 /\ 20 * d > baseline_length)
            IN /\ reason[w] = "Length" <=> differs
               /\ Recorded(cur[w], "Length") <=> differs
               /\ (baseline_length = 0 /\ d <= 50) => reason[w] # "Length"
               /\ (baseline_length = 10000 /\ response[w].length = 10040)
                    => reason[w] # "Length"
               /\ (baseline_length = 1000 /\ response[w].length = 1060)
                    => reason[w] = "Length"
               /\ (baseline_length = 10000 /\ response[w].length = 10400)
                    => reason[w] = "Length"

C3_Witness ==
    \E w \in Workers :
        /\ Decided(w)
        /\ response[w].status = baseline_code
        /\ baseline_length = 10000
        /\ response[w].length = 10400
        /\ Recorded(cur[w], "Length")

\* C4: an item whose request raised is never appended to found_params; its
\* worker is on test_parameter's normal way out, towards task_done and the
\* next get; and when the scan's threads are joined every item was handed to
\* test_parameter once and every answered request was counted.
C4_TransportErrorIsLocal ==
    /\ \A k \in failed : \A j \in 1..Len(found_from) : found_from[j] # k
    /\ \A w \in Workers : cur[w] \in failed => Returned(w)
    /\ (threads >= 1 /\ pc \in {"report", "returned"}) =>
        /\ \A k \in 1..Len(params) : calls[k] = 1
        /\ total_requests = Len(params) - Cardinality(failed)
        /\ \A w \in 1..threads : wpc[w] = "exited"

C4_Witness ==
    /\ pc = "returned"
    /\ threads = 1
    /\ Len(params) = 3
    /\ failed = {2}
    /\ total_requests = 2
    /\ Len(found_params) = 2

\* The scan stands behind both of its barriers, queue.join() and the joins
\* of the threads.
PastBarrier == pc \in {"report", "returned"}

\* Nothing is queued and every worker thread has ended.
Drained ==
    /\ queue = <<>>
    /\ nstarted = threads
    /\ \A w \in 1..threads : wpc[w] = "exited"
    /\ \A w \in Workers : wpc[w] \in {"exited", "unstarted"}

\* C5: with at least one worker and any wordlist, the empty one and those
\* shorter than the worker count too, a scan that starts its workers gets
\* past queue.join() and the joins of its threads, and behind them the queue
\* is empty and every worker thread has ended.
C5_ScanPassesBarrier ==
    /\ []((threads >= 1 /\ PastBarrier) => Drained)
    /\ (pc = "spawn" /\ threads >= 1) ~> (pc = "report" /\ Drained)

C5_Witness ==
    /\ pc = "report"
    /\ threads = 3
    /\ Len(wordlist) = 1
    /\ Drained
    /\ calls[1] = 1

\* C6: with a thread count below 1 the scan aborts at startup: it neither
\* starts the probing phase nor waits on the queue.
C6_InvalidThreadsAbort ==
    threads < 1 =>
        pc \notin {"spawn", "enqueue", "join", "stop", "join_threads",
                   "report", "returned"}

\* C7: whenever a worker thread has been started the baseline's control
\* requests have all been answered and the signature has been set, and no
\* step that leaves a worker started changes the signature.
C7_BaselineFixedBeforeWorkers ==
    /\ [](nstarted > 0 =>
            /\ pc \notin {"load", "baseline", "baseline_set", "exit1"}
            /\ Len(control) = stable_check
            /\ \A k \in 1..Len(control) : control[k] = "answered")
    /\ [][nstarted' > 0 => UNCHANGED baseline]_vars

C7_Witness ==
    \E w \in Workers :
        /\ wpc[w] = "classify"
        /\ stable_check = 2
        /\ baseline_code = 500
        /\ response[w].status = 200

\* A most frequent value of the samples.
IsMode(v, s) ==
    /\ v \in Elems(s)
    /\ \A u \in Elems(s) : Count(s, u) <= Count(s, v)

\* C8: once establish_baseline has set the signature from a non-empty list
\* of samples, baseline_code is a most frequent status code of the samples
\* and baseline_length a most frequent body length, each for itself.
C8_BaselineIsAMode ==
    pc = "baseline_set" =>
        /\ IsMode(baseline_code, codes)
        /\ IsMode(baseline_length, lengths)
        /\ codes = <<200, 200, 500>> => baseline_code = 200
        /\ lengths = <<100, 105, 100>> => baseline_length = 100

C8_Witness ==
    /\ pc = "baseline_set"
    /\ codes = <<200, 200, 500>>
    /\ lengths = <<100, 105, 100>>
    /\ baseline_code = 200
    /\ baseline_length = 100

\* C9 as claimed: among the values tied for most frequent the one seen
\* first in sample order is selected.
C9_TieFirstSeen ==
    pc = "baseline_set" =>
        /\ baseline_code = ModeFirstSeen(codes)
        /\ baseline_length = ModeFirstSeen(lengths)

\* The first value, in the iteration order of set(values), that no value
\* exceeds in frequency.
FirstInSetOrder(values) ==
    LET order == SetOrder(values)
        best(k) == \A j \in 1..Len(order) :
                        Count(values, order[j]) <= Count(values, order[k])
        first == CHOOSE k \in 1..Len(order) :
                    best(k) /\ \A j \in 1..(k - 1) : ~best(j)
    IN order[first]

\* C9 as amended: among the values tied for most frequent the one that
\* comes first when set(samples) is iterated is selected, which need not be
\* the one seen first: codes 500, 200 give 200, lengths 100, 105 give 105.
C9_TieSetOrder ==
    pc = "baseline_set" =>
        /\ baseline_code = FirstInSetOrder(codes)
        /\ baseline_length = FirstInSetOrder(lengths)
        /\ codes = <<500, 200>> => baseline_code = 200
        /\ lengths = <<100, 105>> => baseline_length = 105
        /\ codes = <<500, 200, 404>> => baseline_code = 200

C9_Witness ==
    /\ pc = "baseline_set"
    /\ codes = <<500, 200, 404>>
    /\ lengths = <<100, 105, 108>>
    /\ baseline_code = 200
    /\ baseline_length = 108

\* C10: a control request that raised is the last control request of the
\* run: the process has exited with status 1, no worker thread was started,
\* nothing was queued and no name was handed to test_parameter.
C10_BaselineFailureAborts ==
    \A k \in 1..Len(control) :
        control[k] = "raised" =>
            /\ k = Len(control)
            /\ pc = "exit1"
            /\ nstarted = 0
            /\ \A w \in Workers : wpc[w] = "unstarted"
            /\ queue = <<>>
            /\ \A n \in 1..MaxLoad : calls[n] = 0
            /\ total_requests = 0
            /\ found_params = <<>>

C10_Witness ==
    /\ pc = "exit1"
    /\ stable_check = 3
    /\ control = <<"answered", "raised">>
    /\ nstarted = 0

RECURSIVE SumCalls(_)
SumCalls(k) == IF k = 0 THEN 0 ELSE SumCalls(k - 1) + calls[k]

\* The items taken from the queue so far.
Dequeued == SumCalls(MaxLoad)

\* C11: once the interrupt has arrived no worker begins a probe (no name is
\* handed to test_parameter that was not handed to it before), and when the
\* process has exited no request is still in flight.
C11_GracefulInterrupt ==
    interrupt # <<>> =>
        /\ calls = interrupt[1]
        /\ pc = "exit0" => \A w \in Workers : wpc[w] # "request"

\* The items whose answered request has been counted: handed to
\* test_parameter, not raised, and past "self.total_requests += 1".
Counted ==
    {k \in 1..Len(params) :
        /\ calls[k] >= 1
        /\ k \notin failed
        /\ \A w \in Workers :
            cur[w] = k => wpc[w] \notin {"request", "count", "store"}}

\* The reasons test_parameter appends a finding with.
FindingReasons ==
    {"Status", "Length", "Reflection detected", "Error message detected"}

\* C12: a worker is between the read and the write of total_requests exactly
\* while it holds the lock, so no two workers are there together; no
\* increment is lost (total_requests is the number of counted items) and no
\* append is lost (every decided finding is in found_params, one entry per
\* item); and behind the joins of the threads, where scan reads both, no
\* worker runs and the lock is free.
C12_LockedUpdates ==
    /\ \A w \in Workers : wpc[w] = "store" <=> lock = w
    /\ \A v, w \in Workers : (wpc[v] = "store" /\ wpc[w] = "store") => v = w
    /\ total_requests = Cardinality(Counted)
    /\ Len(found_from) = Len(found_params)
    /\ Unique(found_from)
    /\ \A w \in Workers :
        (Decided(w) /\ reason[w] \in FindingReasons) => Recorded(cur[w], reason[w])
    /\ pc \in {"report", "returned"} =>
        /\ lock = None
        /\ \A w \in Workers : wpc[w] \in {"exited", "unstarted"}

C12_Witness ==
    \E v, w \in Workers :
        /\ wpc[v] = "store"
        /\ lock = v
        /\ wpc[w] = "count"
        /\ tmp[v] = total_requests
        /\ Dequeued = 2

\* C13 as claimed: found_params never holds two entries with the same
\* parameter name.
C13_NoDuplicateNames ==
    \A a, b \in 1..Len(found_params) :
        found_params[a].param = found_params[b].param => a = b

\* C13 as amended: found_params never holds two entries appended for the
\* same line of the wordlist, and with a wordlist of unique names it never
\* holds two entries with the same parameter name.
C13_NoDuplicateLines ==
    /\ Unique(found_from)
    /\ \A j \in 1..Len(found_from) : found_params[j].param = params[found_from[j]]
    /\ Unique(wordlist) => C13_NoDuplicateNames

C13_Witness ==
    /\ Len(wordlist) = 2
    /\ Unique(wordlist)
    /\ threads = 2
    /\ Len(found_params) = 2
    /\ found_params[1].param # found_params[2].param

\* The finding reason of item k at a target that answers a name always
\* alike: a function of the answer, the name and the baseline signature.
Outcome(k) ==
    Detect(target[k], params[k], baseline_code, baseline_length, baseline_reflection)

\* The items that are findings: those answered, with a finding reason.
Expected == {k \in 1..Len(params) : k \notin failed /\ Outcome(k) \in FindingReasons}

\* C14: at a target that answers a name always alike, the reason a worker
\* reaches for an item is Outcome of that item, whichever worker it is and
\* whatever the others do; and when the threads are joined found_params
\* holds, in some order, exactly one entry for every item of Expected, the
\* entry that the answer fixes.
C14_OutcomeIsAFunction ==
    /\ \A w \in Workers : Decided(w) => reason[w] = Outcome(cur[w])
    /\ \A j \in 1..Len(found_params) :
        /\ found_from[j] \in Expected
        /\ found_params[j] = Finding(params[found_from[j]], target[found_from[j]],
                                     Outcome(found_from[j]))
    /\ pc \in {"report", "returned"} =>
        /\ Elems(found_from) = Expected
        /\ Len(found_params) = Cardinality(Expected)

C14_Witness ==
    /\ pc = "returned"
    /\ threads = 2
    /\ Len(params) = 2
    /\ found_from = <<2, 1>>
    /\ found_params[1].reason = "Error message detected"
    /\ found_params[2].reason = "Status"

\* C15: the report at the end of scan always ends with scan returning its
\* findings, whatever the elapsed time is.
C15_ThroughputGuarded == [][pc = "report" => pc' = "returned"]_vars

\* C16: a file is written only by the export of a returned scan that was
\* asked for an output file, at most once; that export writes the file
\* exactly when found_params is not empty, and the file then holds the
\* entries of found_params, one record per entry.
C16_ExportIffFindings ==
    /\ Len(exported) <= 1
    /\ exported # <<>> => (pc = "exit0" /\ interrupt = <<>> /\ output)
    /\ (pc = "exit0" /\ interrupt = <<>> /\ output) =>
        /\ exported # <<>> <=> Len(found_params) >= 1
        /\ exported # <<>> => exported[1] = found_params
    /\ (pc = "exit0" /\ found_params = <<>>) => exported = <<>>

C16_Witness ==
    /\ pc = "exit0"
    /\ output
    /\ Len(found_params) = 2
    /\ exported = <<found_params>>

\* The length is within both thresholds of the baseline's.
LengthWithin(len, blen) ==
    LET d == Abs(len - blen)
    IN d <= 50 /\ (blen > 0 => 20 * d <= blen)

\* C17: with the status code equal to the baseline's and the length within
\* both thresholds, the finding is the reflection finding exactly when the
\* placeholder's presence in the body differs from the baseline's, in either
\* direction; the error patterns are reached only when status, length and
\* reflection all match; and when no signal fires nothing is recorded.
C17_ReflectionThenErrors ==
    \A w \in Workers :
        Decided(w) =>
            LET r == response[w]
                same == /\ r.status = baseline_code
                        /\ LengthWithin(r.length, baseline_length)
                reflection_diff == r.reflected # baseline_reflection
                matches == r.errmsg /\ ~BadPattern(params[cur[w]])
            IN /\ same =>
                    /\ reason[w] = "Reflection detected" <=> reflection_diff
                    /\ Recorded(cur[w], "Reflection detected") <=> reflection_diff
               /\ reason[w] \in {"Error message detected", "re.error"} =>
                    same /\ ~reflection_diff
               /\ (same /\ ~reflection_diff /\ ~matches) =>
                    /\ reason[w] \in {"", "re.error"}
                    /\ \A j \in 1..Len(found_from) : found_from[j] # cur[w]
               /\ (same /\ ~reflection_diff /\ matches) =>
                    Recorded(cur[w], "Error message detected")

C17_Witness ==
    \E w \in Workers :
        /\ Decided(w)
        /\ response[w].status = baseline_code
        /\ response[w].length = baseline_length
        /\ baseline_reflection
        /\ ~response[w].reflected
        /\ response[w].errmsg
        /\ Recorded(cur[w], "Reflection detected")

\* C18: establish_baseline, when every one of its control requests was
\* answered, ends with the signature set, whatever the sample count and the
\* samples are.
C18_WarningsAdvisory ==
    [][(/\ pc = "baseline"
        /\ pc' # "baseline"
        /\ \A k \in 1..Len(control') : control'[k] = "answered")
            => pc' = "baseline_set"]_vars

\* C19: found_params is never longer than total_requests, total_requests
\* never exceeds the number of items dequeued, and every entry of
\* found_params was appended for an item that was dequeued, whose request
\* was answered and whose answer was counted.
C19_FindingsCounted ==
    /\ Len(found_params) <= total_requests
    /\ total_requests <= Dequeued
    /\ \A j \in 1..Len(found_params) :
        /\ found_from[j] \in 1..Len(params)
        /\ calls[found_from[j]] >= 1
        /\ found_from[j] \notin failed
        /\ found_from[j] \in Counted

C19_Witness ==
    /\ Len(found_params) = 1
    /\ total_requests = 2
    /\ Dequeued = 3
    /\ Cardinality(failed) = 1

\* The None items put so far: the loop counter while scan puts them, one
\* per started thread behind the loop.
SentinelsPut ==
    IF pc = "stop" THEN i
    ELSE IF pc \in {"join_threads", "report", "returned", "raised"} THEN nstarted
    ELSE 0

\* Every name was dequeued and marked done.
AllDone ==
    /\ \A k \in 1..Len(params) : calls[k] = 1
    /\ \A w \in Workers : wpc[w] \in {"unstarted", "get", "exited"}
    /\ \A w \in Workers : cur[w] = None

\* C20: a None is in the queue or was taken from it only when every name
\* was dequeued and marked done, post-probe delay included; no name is
\* queued behind a None; the None items put are one per worker behind the
\* loop, each taken by a worker that ended on it; and the queue is empty
\* when scan returns.
C20_ShutdownOrder ==
    /\ \A a, b \in 1..Len(queue) : (a < b /\ queue[a] = None) => queue[b] = None
    /\ (Count(queue, None) > 0 \/ \E w \in Workers : wpc[w] = "exited") =>
        /\ AllDone
        /\ pc \notin {"load", "baseline", "baseline_set", "spawn", "enqueue", "join"}
    /\ Count(queue, None) + Cardinality({w \in Workers : wpc[w] = "exited"})
        = SentinelsPut
    /\ (pc = "join_threads" /\ threads >= 1) => SentinelsPut = threads
    /\ (pc \in {"report", "returned"} /\ threads >= 1) =>
        /\ queue = <<>>
        /\ \A w \in 1..threads : wpc[w] = "exited"

C20_Witness ==
    /\ pc = "join_threads"
    /\ threads = 2
    /\ Len(params) = 2
    /\ queue = <<None>>
    /\ Cardinality({w \in Workers : wpc[w] = "exited"}) = 1
    /\ delay = 1

====
